---- MODULE Spec2Model ----
(***************************************************************************)
(* MiniGit (src/minigit_project.cpp): the repository initializer           *)
(* MiniGit::init and the object store generate_simple_hash / save_blob /   *)
(* read_blob, over an explicit model of the part of the filesystem the     *)
(* program touches (.minigit and what is below it).                        *)
(*                                                                         *)
(* Strings the program computes on (blob contents, digests, the decimal    *)
(* and hexadecimal renderings) are sequences of one-character strings.     *)
(* HEAD and refs/heads/main contents are only ever written whole, so they  *)
(* are TLA+ strings.                                                       *)
(***************************************************************************)
EXTENDS Integers, Sequences, FiniteSets, TLC

VARIABLES
    root,      \* kind of .minigit: "absent", "dir" or "file" (a non-directory)
    objects,   \* kind of .minigit/objects
    refs,      \* kind of .minigit/refs
    heads,     \* kind of .minigit/refs/heads
    HEAD,      \* .minigit/HEAD: [kind, data]
    main,      \* .minigit/refs/heads/main: [kind, data]
    store,     \* the regular files under .minigit/objects: set of [name, data]
    faults,    \* system calls the environment makes fail: subset of Faults
    clock,     \* wall-clock time in whole seconds
    memo,      \* the values std::hash<std::string> has returned: set of [key, val]
    written,   \* history of the save_blob calls that persisted their content:
               \* [content, digest, at: the clock second, n: how many such calls]
    last,      \* outcome of the last operation
    nSaves     \* number of save_blob calls so far

vars == <<root, objects, refs, heads, HEAD, main, store, faults, clock, memo,
          written, last, nSaves>>

fsvars == <<root, objects, refs, heads, HEAD, main, store>>

----------------------------------------------------------------------------
(* Bounds of the model *)

MaxSaves == 2      \* save_blob calls in one behaviour
MaxTime == 1       \* last clock second

----------------------------------------------------------------------------
(* Program constants *)

HexWidth == 32     \* std::setw(32)

HeadLine == "ref: refs/heads/main\n"   \* head_file << "ref: refs/heads/main" << std::endl

NL == "\n"

\* the blob contents save_blob is called with
Contents == {<<>>, <<"a">>, <<"a", NL>>}

\* std::hash<std::string> is implementation-defined: any function of the string.
\* Its values are drawn from a small sample of size_t (0xaf and 0x1f4).
HashVals == {175, 500}

Faults == {"mkdir", "open", "write"}

Kinds == {"absent", "dir", "file"}

Absent == [kind |-> "absent", data |-> ""]

File(d) == [kind |-> "file", data |-> d]

----------------------------------------------------------------------------
(* Number formatting *)

HexDigits == <<"0", "1", "2", "3", "4", "5", "6", "7", "8", "9",
               "a", "b", "c", "d", "e", "f">>

RECURSIVE ToBase(_, _)
\* the digits of n in base b, most significant first (n = 0 gives "0")
ToBase(n, b) ==
    IF n < b THEN <<HexDigits[n + 1]>>
    ELSE ToBase(n \div b, b) \o <<HexDigits[(n % b) + 1]>>

\* std::to_string(unsigned)
to_string(n) == ToBase(n, 10)

\* (mutation: the std::setw / std::setfill are left out)
HexNoFill(n, w) == ToBase(n, 16)

\* ss << std::hex << std::setw(w) << std::setfill('0') << n
\* (setw is a minimum width: a longer rendering is not cut)
HexSetw(n, w) ==
    LET h == ToBase(n, 16)
    IN  IF Len(h) >= w THEN h ELSE [i \in 1..(w - Len(h)) |-> "0"] \o h

----------------------------------------------------------------------------
(* std::hash, as the table of the values it has returned so far *)

Known(m, s) == \E e \in m : e.key = s

Lookup(m, s) == (CHOOSE e \in m : e.key = s).val

\* v is what hasher(s) returns, given the table m
Hashes(m, s, v) == Known(m, s) => v = Lookup(m, s)

Memoize(m, s, v) == IF Known(m, s) THEN m ELSE m \cup {[key |-> s, val |-> v]}

\* (mutation: the number of blobs saved so far is mixed into the hashed string)
data_to_hash_counted(content, v1) ==
    content \o to_string(clock) \o to_string(v1) \o to_string(nSaves)

\* generate_simple_hash(content), where v1 = hasher(content) and
\* v2 = hasher(data_to_hash)
data_to_hash(content, v1) == content \o to_string(clock) \o to_string(v1)

generate_simple_hash(v2) == HexSetw(v2, HexWidth)

----------------------------------------------------------------------------
(* The object files *)

Names == {o.name : o \in store}

Exists(name) == name \in Names

Data(name) == (CHOOSE o \in store : o.name = name).data

\* (mutation: the objects directory is emptied before the file is written)
PutAlone(s, name, data) == {[name |-> name, data |-> data]}

\* (mutation: the content goes through a temporary file that is left behind)
PutLeavesTemp(s, name, data) ==
    {o \in s : o.name # name}
        \cup {[name |-> name, data |-> data], [name |-> <<"t", "m", "p">>, data |-> data]}

\* std::ofstream(path) << data: the file is created or truncated, then written
Put(s, name, data) == {o \in s : o.name # name} \cup {[name |-> name, data |-> data]}

----------------------------------------------------------------------------
(* std::getline *)

RECURSIVE FirstNL(_, _)
\* index of the first newline of f at or after i, 0 when there is none
FirstNL(f, i) ==
    IF i > Len(f) THEN 0
    ELSE IF f[i] = NL THEN i
    ELSE FirstNL(f, i + 1)

RECURSIVE ReadLines(_)
\* while (std::getline(infile, line)) content += line + "\n";
ReadLines(f) ==
    IF f = <<>> THEN <<>>
    ELSE LET k == FirstNL(f, 1)
         IN  IF k = 0 THEN f \o <<NL>>
             ELSE SubSeq(f, 1, k - 1) \o <<NL>> \o ReadLines(SubSeq(f, k + 1, Len(f)))

RECURSIVE PopBackAll(_)
\* (mutation: every trailing newline is removed, not only the last one)
PopBackAll(s) ==
    IF s = <<>> \/ s[Len(s)] # NL THEN s ELSE PopBackAll(SubSeq(s, 1, Len(s) - 1))

\* if (!content.empty()) content.pop_back();
PopBack(s) == IF s = <<>> THEN s ELSE SubSeq(s, 1, Len(s) - 1)

\* (mutation: the pop_back is left out)
ReadFileKeepsNewline(f) == ReadLines(f)

\* what read_blob returns for a file holding f
ReadFile(f) == PopBack(ReadLines(f))

----------------------------------------------------------------------------
(* Outcome records *)

\* op: the operation; arg, ret: its argument and return value;
\* opened: its stream was open (init: the HEAD stream);
\* wrote: the stream was still good after the write (init: the HEAD stream);
\* good: the operation met no error at all;
\* init only: attempted, failed: the paths it tried to create or open and those
\* for which that failed; errors: the paths named in its "Error:" lines;
\* success: it printed "initialized successfully"; exit: the exit code of the
\* command; reinit: the operation before it was an init() that met no error;
\* before: HEAD and refs/heads/main as they were when it started
NoOp == [op |-> "none", arg |-> <<>>, ret |-> <<>>, opened |-> FALSE, wrote |-> FALSE,
         good |-> FALSE, attempted |-> {}, failed |-> {}, errors |-> {},
         success |-> FALSE, exit |-> 0, reinit |-> FALSE,
         before |-> [HEAD |-> Absent, main |-> Absent]]

----------------------------------------------------------------------------
(* MiniGit::init *)

\* (mutation: the fs::exists test is left out)
PathExistsNever(kind) == FALSE

\* fs::exists(p)
PathExists(kind) == kind # "absent"

\* fs::is_directory(p)
IsDirectory(kind) == kind = "dir"

\* (mutation: the return is left out)
ReturnedNever(fail) == FALSE

\* the return; that follows a failed fs::create_directory
Returned(fail) == fail

\* fs::create_directory(p) succeeds: nothing is at p, the parent is a directory
\* and mkdir does not fail
CreateOK(kind, parentKind) ==
    kind = "absent" /\ parentKind = "dir" /\ "mkdir" \notin faults

\* std::ofstream(p).is_open(): p is not a directory, its parent is one, and the
\* open for writing does not fail
OpenOK(kind, parentKind) ==
    kind # "dir" /\ parentKind = "dir" /\ "open" \notin faults

\* (mutation: HEAD is written only when there is none)
WriteHeadIfAbsent(h) ==
    IF h.kind = "file" THEN h ELSE File(IF "write" \in faults THEN "" ELSE HeadLine)

\* head_file << "ref: refs/heads/main" << std::endl on the opened (truncated) file
WriteHead(h) == File(IF "write" \in faults THEN "" ELSE HeadLine)

\* std::ofstream main_branch_file(main_branch_path); main_branch_file.close();
WriteMain(m) == File("")

\* The run of init() from the current state. A failing fs::create_directory
\* either returns false (the error branch of the code) or throws
\* fs::filesystem_error, which nothing catches: how == "false" or "throw".
InitRun(how) ==
    LET \* lines 39-51
        rootTry  == ~(PathExists(root) /\ IsDirectory(root))
        rootMade == rootTry /\ CreateOK(root, "dir")
        rootFail == rootTry /\ ~rootMade
        root1    == IF rootMade THEN "dir" ELSE root
        \* lines 53-61
        ret1     == Returned(rootFail)
        objTry   == ~ret1 /\ ~PathExists(objects)
        objMade  == objTry /\ CreateOK(objects, root1)
        objFail  == objTry /\ ~objMade
        objects1 == IF objMade THEN "dir" ELSE objects
        \* lines 63-71
        ret2     == ret1 \/ Returned(objFail)
        refsTry  == ~ret2 /\ ~PathExists(refs)
        refsMade == refsTry /\ CreateOK(refs, root1)
        refsFail == refsTry /\ ~refsMade
        refs1    == IF refsMade THEN "dir" ELSE refs
        \* lines 73-81
        ret3      == ret2 \/ Returned(refsFail)
        headsTry  == ~ret3 /\ ~PathExists(heads)
        headsMade == headsTry /\ CreateOK(heads, refs1)
        headsFail == headsTry /\ ~headsMade
        heads1    == IF headsMade THEN "dir" ELSE heads
        \* no return was taken before line 83
        go       == ~(ret3 \/ Returned(headsFail))
        \* lines 85-93
        headOpen == go /\ OpenOK(HEAD.kind, root1)
        HEAD1    == IF headOpen THEN WriteHead(HEAD) ELSE HEAD
        \* lines 95-103
        mainOpen == go /\ OpenOK(main.kind, heads1)
        main1    == IF mainOpen THEN WriteMain(main) ELSE main
        failed   == {p \in {"root", "objects", "refs", "heads"} :
                        \/ p = "root" /\ rootFail
                        \/ p = "objects" /\ objFail
                        \/ p = "refs" /\ refsFail
                        \/ p = "heads" /\ headsFail}
                    \cup (IF go /\ ~headOpen THEN {"HEAD"} ELSE {})
                    \cup (IF go /\ ~mainOpen THEN {"main"} ELSE {})
        threw    == failed \cap {"root", "objects", "refs", "heads"} # {}
                    /\ how = "throw"
    IN  [root |-> root1, objects |-> objects1, refs |-> refs1, heads |-> heads1,
         HEAD |-> HEAD1, main |-> main1,
         attempted |-> {p \in {"root", "objects", "refs", "heads", "HEAD", "main"} :
                          \/ p = "root" /\ rootTry
                          \/ p = "objects" /\ objTry
                          \/ p = "refs" /\ refsTry
                          \/ p = "heads" /\ headsTry
                          \/ p \in {"HEAD", "main"} /\ go},
         failed |-> failed,
         \* the paths the program itself names in an "Error: ..." line
         errors |-> IF threw THEN {} ELSE failed,
         \* the streams are in a good state after the writes
         headOpen |-> headOpen,
         good |-> failed = {} /\ "write" \notin faults,
         \* line 106 is reached
         success |-> go,
         threw |-> threw]

\* main(): minigit.init(); return 0;  (std::terminate when init() throws)
ExitCode(threw) == IF threw THEN 134 ELSE 0

\* (mutation: init() removes what is below objects and starts it afresh)
initEmptiesObjects ==
    /\ \E how \in {"false", "throw"} :
          LET r == InitRun(how)
          IN  /\ root' = r.root
              /\ objects' = r.objects
              /\ refs' = r.refs
              /\ heads' = r.heads
              /\ HEAD' = r.HEAD
              /\ main' = r.main
              /\ last' = [op |-> "init", arg |-> <<>>, ret |-> <<>>,
                          opened |-> r.headOpen,
                          wrote |-> r.headOpen /\ "write" \notin faults,
                          good |-> r.good,
                          attempted |-> r.attempted, failed |-> r.failed,
                          errors |-> r.errors, success |-> r.success,
                          exit |-> ExitCode(r.threw),
                          reinit |-> last.op = "init" /\ last.good,
                          before |-> [HEAD |-> HEAD, main |-> main]]
    /\ store' = {}
    /\ UNCHANGED <<faults, clock, memo, written, nSaves>>

\* the command "minigit init"
init ==
    /\ \E how \in {"false", "throw"} :
          LET r == InitRun(how)
          IN  /\ root' = r.root
              /\ objects' = r.objects
              /\ refs' = r.refs
              /\ heads' = r.heads
              /\ HEAD' = r.HEAD
              /\ main' = r.main
              /\ last' = [op |-> "init", arg |-> <<>>, ret |-> <<>>,
                          opened |-> r.headOpen,
                          wrote |-> r.headOpen /\ "write" \notin faults,
                          good |-> r.good,
                          attempted |-> r.attempted, failed |-> r.failed,
                          errors |-> r.errors, success |-> r.success,
                          exit |-> ExitCode(r.threw),
                          \* the operation before this one was an init() without an error
                          reinit |-> last.op = "init" /\ last.good,
                          before |-> [HEAD |-> HEAD, main |-> main]]
    /\ UNCHANGED <<store, faults, clock, memo, written, nSaves>>

----------------------------------------------------------------------------
(* MiniGit::save_blob *)

\* outfile << file_content on the opened (truncated) file: all of it, or, when
\* the write fails, some proper prefix of it
Persisted(c) ==
    IF "write" \in faults /\ c # <<>>
    THEN {SubSeq(c, 1, k) : k \in 0..(Len(c) - 1)}
    ELSE {c}

\* the history w with one more call save_blob(c) that returned h at second t
Record(w, c, h, t) ==
    LET old == {e \in w : e.content = c /\ e.digest = h /\ e.at = t}
        k   == IF old = {} THEN 0 ELSE (CHOOSE e \in old : TRUE).n
    IN  (w \ old) \cup {[content |-> c, digest |-> h, at |-> t, n |-> k + 1]}

\* the value returned: the hash when the file was opened, "" otherwise
SaveReturn(opened, hash) == IF opened THEN hash ELSE <<>>

save_blob(c) ==
    /\ nSaves < MaxSaves
    /\ \E v1, v2 \in HashVals :
          LET m1   == Memoize(memo, c, v1)
              data == data_to_hash(c, v1)
              m2   == Memoize(m1, data, v2)
              hash == generate_simple_hash(v2)
              opened == OpenOK(IF Exists(hash) THEN "file" ELSE "absent", objects)
          IN  /\ Hashes(memo, c, v1)
              /\ Hashes(m1, data, v2)
              /\ memo' = m2
              /\ \E d \in Persisted(c) :
                    /\ store' = IF opened THEN Put(store, hash, d) ELSE store
                    /\ last' = [NoOp EXCEPT !.op = "save", !.arg = c,
                                            !.ret = SaveReturn(opened, hash),
                                            !.opened = opened,
                                            !.wrote = opened /\ d = c,
                                            !.good = opened /\ d = c]
                    /\ written' = IF opened /\ d = c
                                  THEN Record(written, c, hash, clock)
                                  ELSE written
    /\ nSaves' = nSaves + 1
    /\ UNCHANGED <<root, objects, refs, heads, HEAD, main, faults, clock>>

----------------------------------------------------------------------------
(* MiniGit::read_blob *)

\* std::ifstream(objects/hash).is_open(): the object file exists; with hash ==
\* "" the path is the objects directory itself, which opens and reads nothing
ReadOpens(hash) == IF hash = <<>> THEN objects = "dir" ELSE Exists(hash)

\* the value read_blob(hash) returns in the current state
ReadReturn(hash) ==
    IF ReadOpens(hash)
    THEN ReadFile(IF hash = <<>> THEN <<>> ELSE Data(hash))
    ELSE <<>>

\* the all-zero digest "0" * 32, which no save_blob returns (no hash value is 0)
ZeroDigest == generate_simple_hash(0)

\* the digests read_blob is called with: every digest the hash can produce, the
\* all-zero digest and the error value "" of save_blob
ReadArgs == {generate_simple_hash(v) : v \in HashVals} \cup {ZeroDigest, <<>>}

\* (mutation: the stream is opened for reading and writing, which creates a
\* missing file)
read_blob_creates(hash) ==
    /\ last' = [NoOp EXCEPT !.op = "read", !.arg = hash,
                            !.ret = ReadReturn(hash),
                            !.opened = ReadOpens(hash) \/ objects = "dir",
                            !.good = hash # <<>> /\ (ReadOpens(hash) \/ objects = "dir")]
    /\ store' = IF objects = "dir" /\ hash # <<>> /\ ~Exists(hash)
                THEN Put(store, hash, <<>>)
                ELSE store
    /\ UNCHANGED <<root, objects, refs, heads, HEAD, main, faults, clock,
                   memo, written, nSaves>>

read_blob(hash) ==
    /\ last' = [NoOp EXCEPT !.op = "read", !.arg = hash,
                            !.ret = ReadReturn(hash),
                            !.opened = ReadOpens(hash),
                            !.good = ReadOpens(hash) /\ hash # <<>>]
    /\ UNCHANGED <<root, objects, refs, heads, HEAD, main, store, faults, clock,
                   memo, written, nSaves>>

----------------------------------------------------------------------------
(* The clock *)

Tick ==
    /\ clock < MaxTime
    /\ clock' = clock + 1
    /\ UNCHANGED <<root, objects, refs, heads, HEAD, main, store, faults, memo,
                   written, last, nSaves>>

----------------------------------------------------------------------------
(* Specifications *)

\* the contents HEAD and refs/heads/main may hold before the program runs
HeadData == {HeadLine, "ref: refs/heads/dev\n"}
MainData == {"", "c0ffee"}

Nodes(data) == {Absent, [kind |-> "dir", data |-> ""]} \cup {File(d) : d \in data}

\* a filesystem is a tree: something is below a path only if it is a directory
WellFormed ==
    /\ root # "dir" => objects = "absent" /\ refs = "absent" /\ HEAD = Absent
    /\ refs # "dir" => heads = "absent"
    /\ heads # "dir" => main = Absent
    /\ objects # "dir" => store = {}

Start ==
    /\ clock = 0
    /\ memo = {}
    /\ written = {}
    /\ store = {}
    /\ last = NoOp
    /\ nSaves = 0

Fresh ==
    /\ Start
    /\ root = "absent" /\ objects = "absent" /\ refs = "absent" /\ heads = "absent"
    /\ HEAD = Absent /\ main = Absent

\* The program is started in a directory without a repository; directories
\* may fail to be created and files to be opened, writes go through.
Init == Fresh /\ faults \in SUBSET {"mkdir", "open"}

Next ==
    \/ init
    \/ \E c \in Contents : save_blob(c)
    \/ \E h \in ReadArgs : read_blob(h)
    \/ Tick

Spec == Init /\ [][Next]_vars

\* The same, where writes to an open file may fail as well (a full disk).
InitDisk == Fresh /\ faults \in SUBSET Faults

NextDisk ==
    \/ init
    \/ \E c \in Contents : save_blob(c)
    \/ \E h \in ReadArgs : read_blob(h)
    \/ Tick

SpecDisk == InitDisk /\ [][NextDisk]_vars

\* init started on any filesystem: a repository another run left behind,
\* with a branch checked out and commits on main, or names already in use.
InitAny ==
    /\ Start
    /\ faults \in SUBSET Faults
    /\ root \in Kinds /\ objects \in Kinds /\ refs \in Kinds /\ heads \in Kinds
    /\ HEAD \in Nodes(HeadData) /\ main \in Nodes(MainData)
    /\ WellFormed

NextInit == init

SpecInit == InitAny /\ [][NextInit]_vars

\* The object store on texts with and without final newlines, within one
\* clock second and with no failing system call.
Texts == {<<>>, <<"a">>, <<NL>>, <<"a", "a">>, <<"a", NL>>, <<NL, "a">>, <<NL, NL>>,
          <<"a", NL, NL>>}

InitText == Fresh /\ faults = {}

NextText ==
    \/ init
    \/ \E c \in Texts : save_blob(c)
    \/ \E h \in ReadArgs : read_blob(h)

SpecText == InitText /\ [][NextText]_vars

----------------------------------------------------------------------------
(* Properties of the object store *)

EndsInNewline(c) == c # <<>> /\ c[Len(c)] = NL

\* C1: in an initialized repository, when save_blob(c) has succeeded with
\* digest d and c does not end in a newline (c may be empty), read_blob(d)
\* called next returns exactly c.
C1_RoundTrip ==
    (last.op = "save" /\ last.wrote /\ ~EndsInNewline(last.arg))
        => ReadReturn(last.ret) = last.arg

\* a save_blob of a non-empty content without trailing newline has succeeded
C1_Witness ==
    /\ last.op = "save" /\ last.wrote
    /\ last.arg = <<"a">>
    /\ last.ret \in Names
    /\ ReadReturn(last.ret) = <<"a">>

\* C2: every content a successful save_blob stored reads back (up to the one
\* stripped trailing newline) under the digest that call returned, whatever
\* the later calls and their digests were.
C2_EveryObjectRetrievable ==
    \A w \in written : ReadReturn(w.digest) = ReadFile(w.content)

\* C4: save_blob returns a digest only for content it persisted: a non-empty
\* return value names an object file holding the content verbatim, and a
\* destination that could not be opened or written gives the error value "".
C4_DigestOnlyIfPersisted ==
    last.op = "save" =>
        /\ last.ret # <<>> => Exists(last.ret) /\ Data(last.ret) = last.arg
        /\ ~(last.opened /\ last.wrote) => last.ret = <<>>

\* C5: read_blob of a digest that was never written gives an outcome that no
\* successful read of a stored object gives, an empty object included.
C5_MissingDistinctFromStored ==
    (last.op = "read" /\ last.arg # <<>> /\ ~last.opened
        /\ \A w \in written : w.digest # last.arg)
        => \A n \in Names : ReadReturn(n) # last.ret

----------------------------------------------------------------------------
(* Properties of init *)

DirPaths == <<"objects", "refs", "heads">>

\* the paths init() handles after the directory DirPaths[i]
After(i) == {DirPaths[j] : j \in (i + 1)..Len(DirPaths)} \cup {"HEAD", "main"}

KindOf(p) ==
    CASE p = "root" -> root
      [] p = "objects" -> objects
      [] p = "refs" -> refs
      [] p = "heads" -> heads
      [] p = "HEAD" -> HEAD.kind
      [] p = "main" -> main.kind

\* C3: init() on a repository whose refs/heads/main holds something leaves
\* that file and its content as they were.
C3_MainNotTruncated ==
    (last.op = "init" /\ last.before.main.kind = "file" /\ last.before.main.data # "")
        => main = last.before.main

C7_LayoutComplete ==
    (last.op = "init" /\ last.success) =>
        /\ root = "dir" /\ objects = "dir" /\ refs = "dir" /\ heads = "dir"
        /\ HEAD.kind = "file" /\ main.kind = "file"

\* C8: when HEAD cannot be opened for writing, init() does not report success
\* and the init command exits with a non-zero code; in every other case the
\* exit code is 0.
C8_HeadFailureFatal ==
    last.op = "init" =>
        /\ "HEAD" \in last.failed => ~last.success /\ last.exit # 0
        /\ "HEAD" \notin last.failed => last.exit = 0

\* C9 as stated: when creating objects, refs or refs/heads fails, init() names
\* the path in an error, still attempts the paths that come after it, and does
\* not report success.
C9_DirFailureNonFatal ==
    last.op = "init" =>
        \A i \in 1..Len(DirPaths) :
            DirPaths[i] \in last.failed =>
                /\ DirPaths[i] \in last.errors \/ last.exit # 0
                /\ \A q \in After(i) : q \in last.attempted \/ KindOf(q) # "absent"
                /\ ~last.success

\* C9 as amended: when creating objects, refs or refs/heads fails, init()
\* stops there: the failure is reported (in its own error line, or by the
\* uncaught exception ending the program), none of the paths after it is
\* attempted, HEAD and refs/heads/main are as before, and success is not
\* reported.
C9_DirFailureStops ==
    last.op = "init" =>
        \A i \in 1..Len(DirPaths) :
            DirPaths[i] \in last.failed =>
                /\ DirPaths[i] \in last.errors \/ last.exit # 0
                /\ After(i) \cap last.attempted = {}
                /\ HEAD = last.before.HEAD /\ main = last.before.main
                /\ ~last.success

\* creating refs failed in a repository that has objects
C9_Witness ==
    /\ last.op = "init" /\ "refs" \in last.failed
    /\ objects = "dir" /\ refs = "absent"
    /\ "objects" \notin last.attempted

\* C10: an init() that directly follows an init() without error meets no
\* error either and leaves root, objects, refs, refs/heads, HEAD and
\* refs/heads/main (and the objects) as the first one left them.
C10_InitIdempotent ==
    [][(last.op = "init" /\ last.good /\ last'.op = "init")
          => (last'.good /\ fsvars' = fsvars)]_vars

\* the second of two init() calls in a row has run, the first without error
C10_Witness ==
    /\ last.op = "init" /\ last.reinit /\ last.good
    /\ root = "dir" /\ HEAD = File(HeadLine) /\ main = File("")

----------------------------------------------------------------------------
(* Further properties of the object store *)

LowerHex == {HexDigits[i] : i \in 1..Len(HexDigits)}

\* C11: every digest a successful save_blob returns is a string of exactly 32
\* characters, each one of 0-9, a-f.
C11_DigestFormat ==
    (last.op = "save" /\ last.ret # <<>>) =>
        /\ Len(last.ret) = 32
        /\ \A i \in 1..Len(last.ret) : last.ret[i] \in LowerHex

\* a save_blob has returned a digest with a letter among its digits
C11_Witness ==
    /\ last.op = "save" /\ last.wrote
    /\ \E i \in 1..Len(last.ret) : last.ret[i] \in {"a", "b", "c", "d", "e", "f"}

\* C12: a successful save_blob(c) returning d leaves objects/d holding c and
\* changes nothing else: every other object file is there before and after
\* with the same content, HEAD, refs/heads/main and the directories are as
\* before, and there is at most one object file more.
C12_SaveFrame ==
    [][(nSaves' = nSaves + 1 /\ last'.wrote) =>
          /\ [name |-> last'.ret, data |-> last'.arg] \in store'
          /\ {o \in store' : o.name # last'.ret} = {o \in store : o.name # last'.ret}
          /\ Cardinality({o \in store' : o.name = last'.ret}) = 1
          /\ Cardinality(store') <= Cardinality(store) + 1
          /\ <<root, objects, refs, heads, HEAD, main>>'
                = <<root, objects, refs, heads, HEAD, main>>]_vars

\* a second object was stored next to the first
C12_Witness ==
    /\ last.op = "save" /\ last.wrote /\ nSaves = 2
    /\ Cardinality(store) = 2
    /\ HEAD = File(HeadLine) /\ main = File("")

\* C13: for a content c that ends in a newline, save_blob stores c byte for
\* byte and read_blob of the returned digest gives c without its last
\* character: exactly one newline is removed and nothing else is changed.
C13_OneNewlineStripped ==
    (last.op = "save" /\ last.wrote /\ EndsInNewline(last.arg)) =>
        /\ Data(last.ret) = last.arg
        /\ ReadReturn(last.ret) = SubSeq(last.arg, 1, Len(last.arg) - 1)
        /\ ReadReturn(last.ret) \o <<NL>> = last.arg

\* "a\n\n" was saved; it reads back as "a\n"
C13_Witness ==
    /\ last.op = "save" /\ last.wrote
    /\ last.arg = <<"a", NL, NL>>
    /\ ReadReturn(last.ret) = <<"a", NL>>

\* C15: init() on a repository that holds objects leaves the files under
\* objects and their contents as they were: every digest reads back the same
\* content after it as before it.
C15_ReinitKeepsObjects ==
    [][(last'.op = "init" /\ store # {}) =>
          /\ store' = store
          /\ \A n \in Names : ReadReturn(n)' = ReadReturn(n)]_vars

\* init() has run on a repository that holds an object
C15_Witness ==
    /\ last.op = "init" /\ last.success
    /\ \E o \in store : o.data = <<"a">> /\ ReadReturn(o.name) = <<"a">>

\* C16: no operation deletes an object: a file objects/d that exists in one
\* state exists in the next, across init, save_blob and read_blob.
C16_ObjectsNeverDeleted ==
    [][Names \subseteq Names']_vars

\* objects exist and a later save_blob, to a digest in use, has run
C16_Witness ==
    /\ last.op = "save" /\ last.wrote /\ nSaves = 2
    /\ Cardinality(written) = 2 /\ Cardinality(store) = 1
    /\ last.ret \in Names

\* C17: read_blob changes nothing on disk, for a digest that is stored and for
\* one that is not, and a second read_blob of the same digest directly after
\* the first returns the same value.
C17_ReadIsPure ==
    [][last'.op = "read" =>
          /\ fsvars' = fsvars
          /\ (last.op = "read" /\ last.arg = last'.arg) => last'.ret = last.ret]_vars

\* a stored object was read while another digest is not stored
C17_Witness ==
    /\ last.op = "read" /\ last.opened /\ last.arg \in Names
    /\ \E h \in ReadArgs : h # <<>> /\ h \notin Names

\* C18: the digest is a function of the content and the clock second: two
\* save_blob calls with the same content in the same second return the same
\* digest and leave one object file for it, so the digests of one content
\* differ only when the seconds differ.
C18_DigestDeterministic ==
    \A w1, w2 \in written :
        w1.content = w2.content =>
            /\ w1.at = w2.at =>
                  /\ w1.digest = w2.digest
                  /\ Cardinality({o \in store : o.name = w1.digest}) = 1
            /\ w1.digest # w2.digest => w1.at # w2.at

\* the same content was saved twice within one second: one digest, one file
C18_Witness ==
    /\ nSaves = 2
    /\ \E w \in written : w.n = 2 /\ w.content = <<"a">>
    /\ Cardinality(store) = 1

----------------------------------------------------------------------------
(* Further properties of init *)

\* C14: when .minigit is not a directory and cannot be created, init() stops:
\* it attempts none of objects, refs, refs/heads, HEAD and refs/heads/main,
\* none of them exists afterwards, and it does not report success.
C14_RootFailureStops ==
    (last.op = "init" /\ "root" \in last.failed) =>
        /\ last.attempted = {"root"}
        /\ root # "dir"
        /\ \A p \in {"objects", "refs", "heads", "HEAD", "main"} : KindOf(p) = "absent"
        /\ ~last.success

\* init() ran where .minigit could not be created
C14_Witness ==
    /\ last.op = "init" /\ "root" \in last.failed
    /\ root = "absent" /\ "mkdir" \in faults

====
